---- MODULE Spec2Model ----
(***************************************************************************)
(* Model of src/src/expression/latex.rs: the nom-based recursive-descent   *)
(* parser `parse` and the serializer `latexify`.                           *)
(*                                                                         *)
(* A text is a sequence of one-character strings; a parser takes the text  *)
(* s and a position i (the remaining input is s[i..Len(s)]) and returns    *)
(*   Ok(pos, val)   the nom result Ok((rest, val)), rest = s[pos..]        *)
(*   Err            the nom result Err(Err::Error(_)) (backtrackable)      *)
(*   Panic(why)     a Rust panic, which aborts the whole call              *)
(***************************************************************************)
EXTENDS Integers, Sequences, FiniteSets, TLC

VARIABLES
    text,    \* the notation string last given to, or produced by, the program
    expr,    \* the expression tree last given to, or produced by, the program
    orig,    \* the tree that `text` was rendered from (NoExpr if text is raw input)
    pc,      \* "input" | "given" | "parsed" | "rendered" | "panicked"
    fault,   \* the panic message when pc = "panicked", else "none"
    steps,   \* number of parse/latexify calls made so far
    overflow_checks  \* build profile: TRUE when u8 arithmetic overflow panics
                     \* (debug), FALSE when it wraps (release)

vars == <<text, expr, orig, pc, fault, steps, overflow_checks>>

-----------------------------------------------------------------------------
(* Bounds of the model *)

LoopLevels   == 8   \* a loop of the grammar is followed for 2^(LoopLevels+1) - 1 turns
MaxSteps     == 3   \* calls of parse/latexify made in a row
MaxOperands  == 3   \* operands of an operator chain
MaxRows      == 2   \* rows of a matrix literal
MaxCols      == 2   \* elements of a row or of a vector literal
MaxLiteral   == 5   \* characters of a numeric literal
MaxIndex     == 3   \* digits of an escape index
MaxNodes     == 5   \* nodes of a given expression tree

-----------------------------------------------------------------------------
(* Characters *)

Digits == {"0", "1", "2", "3", "4", "5", "6", "7", "8", "9"}

Alphabetic ==
    {"a", "b", "c", "d", "e", "f", "g", "h", "i", "j", "k", "l", "m",
     "n", "o", "p", "q", "r", "s", "t", "u", "v", "w", "x", "y", "z",
     "A", "B", "C", "D", "E", "F", "G", "H", "I", "J", "K", "L", "M",
     "N", "O", "P", "Q", "R", "S", "T", "U", "V", "W", "X", "Y", "Z"}

Alphanumeric == Alphabetic \cup Digits

\* nom space0 recognises spaces and tabs
Blank == {" ", "\t"}

DigitValue(c) ==
    CASE c = "0" -> 0 [] c = "1" -> 1 [] c = "2" -> 2 [] c = "3" -> 3
      [] c = "4" -> 4 [] c = "5" -> 5 [] c = "6" -> 6 [] c = "7" -> 7
      [] c = "8" -> 8 [] c = "9" -> 9

DigitChar(d) ==
    CASE d = 0 -> "0" [] d = 1 -> "1" [] d = 2 -> "2" [] d = 3 -> "3"
      [] d = 4 -> "4" [] d = 5 -> "5" [] d = 6 -> "6" [] d = 7 -> "7"
      [] d = 8 -> "8" [] d = 9 -> "9"

I32_MAX == 2147483647
U8_MAX == 255

\* `n as u8` of a usize
as_u8(n) == n % (U8_MAX + 1)

\* is_numeric_value: c.is_ascii_digit() || c == '.'
is_numeric_value == Digits \cup {"."}

-----------------------------------------------------------------------------
(* Literal tags of the grammar *)

TagLParen     == <<"(">>
TagLeftParen  == <<"\\", "l", "e", "f", "t", "(">>
TagRParen     == <<")">>
TagRightParen == <<"\\", "r", "i", "g", "h", "t", ")">>
TagLBrace     == <<"{">>
TagLeftBrace  == <<"\\", "l", "e", "f", "t", "{">>
TagRBrace     == <<"}">>
TagRightBrace == <<"\\", "r", "i", "g", "h", "t", "}">>
TagFrac       == <<"\\", "f", "r", "a", "c">>
TagCdot       == <<"\\", "c", "d", "o", "t">>
TagBackslash  == <<"\\">>
TagPlus       == <<"+">>
TagMinus      == <<"-">>
TagSlash      == <<"/">>
TagPercent    == <<"%">>
TagCaret      == <<"^">>
TagBang       == <<"!">>

-----------------------------------------------------------------------------
(* Expression trees (crate::expression::expression_tree, as built here) *)

NoExpr == [tag |-> "None"]

Integer(n)      == [tag |-> "Atom", kind |-> "Integer", v |-> n]
\* a decimal literal is kept as mantissa m and number of fraction digits e,
\* without trailing fraction zeros: the value m / 10^e
Decimal(m, e)   == [tag |-> "Atom", kind |-> "Decimal", v |-> <<m, e>>]
Variable(c)     == [tag |-> "Atom", kind |-> "Variable", v |-> c]
Escape(kind, n) == [tag |-> "Atom", kind |-> "Escape", v |-> <<kind, n>>]

Negate(e)    == [tag |-> "Negate", e |-> e]
Factorial(e) == [tag |-> "Factorial", e |-> e]
Percent(e)   == [tag |-> "Percent", e |-> e]

Add(l, r)      == [tag |-> "Add", l |-> l, r |-> r]
Subtract(l, r) == [tag |-> "Subtract", l |-> l, r |-> r]
Multiply(l, r) == [tag |-> "Multiply", l |-> l, r |-> r]
Divide(l, r)   == [tag |-> "Divide", l |-> l, r |-> r]
Power(l, r)    == [tag |-> "Power", l |-> l, r |-> r]
Modulus(l, r)  == [tag |-> "Modulus", l |-> l, r |-> r]

Function(name, args)   == [tag |-> "Function", name |-> name, args |-> args]
Vector(size, backing)  == [tag |-> "Vector", size |-> size, backing |-> backing]
Matrix(backing, shape) == [tag |-> "Matrix", backing |-> backing, shape |-> shape]

-----------------------------------------------------------------------------
(* Parser results *)

Ok(p, v)  == [k |-> "ok", pos |-> p, val |-> v]
Err       == [k |-> "err"]
Panic(w)  == [k |-> "panic", why |-> w]
\* the value of a closure that may panic
Val(v)    == [k |-> "ok", val |-> v]

\* nom `map(parser, f)`: f runs only on the parser's success and may panic
Map(r, F(_)) ==
    IF r.k # "ok" THEN r
    ELSE LET m == F(r.val) IN IF m.k = "panic" THEN m ELSE Ok(r.pos, m.val)

\* sequencing, as in nom's tuple / pair / delimited: F continues from a success
\* of r; an error or a panic of r is the result
Then(r, F(_)) == IF r.k # "ok" THEN r ELSE F(r)

\* nom `alt`: the next alternative is tried on a recoverable error only
OrElse(r, q) == IF r.k # "err" THEN r ELSE q

-----------------------------------------------------------------------------
(* nom primitives *)

RECURSIVE space0(_, _)
space0(s, i) == IF i <= Len(s) /\ s[i] \in Blank THEN space0(s, i + 1) ELSE i

tag(t, s, i) ==
    IF i + Len(t) - 1 <= Len(s) /\ \A j \in 1..Len(t) : s[i + j - 1] = t[j]
    THEN Ok(i + Len(t), t)
    ELSE Err

char(c, s, i) == tag(<<c>>, s, i)

\* alt((tag(a), tag(b), ...)): the first tag of ts that matches
alt_tag(ts, s, i) ==
    LET hits == {n \in 1..Len(ts) : tag(ts[n], s, i).k = "ok"}
    IN  IF hits = {} THEN Err
        ELSE tag(ts[CHOOSE n \in hits : \A m \in hits : n <= m], s, i)

take(n, s, i) ==
    IF i + n - 1 <= Len(s) THEN Ok(i + n, SubSeq(s, i, i + n - 1)) ELSE Err

\* position after the longest run of characters of C starting at i
RECURSIVE run_end(_, _, _)
run_end(C, s, i) == IF i <= Len(s) /\ s[i] \in C THEN run_end(C, s, i + 1) ELSE i

take_while(C, s, i) ==
    LET j == run_end(C, s, i) IN Ok(j, SubSeq(s, i, j - 1))

take_while1(C, s, i) ==
    LET j == run_end(C, s, i) IN IF j = i THEN Err ELSE Ok(j, SubSeq(s, i, j - 1))

digit1(s, i) == take_while1(Digits, s, i)

\* delimited(_, p, space0): skip the blanks that follow a successful p
TrailingSpace(r, s) == IF r.k = "ok" THEN Ok(space0(s, r.pos), r.val) ELSE r

-----------------------------------------------------------------------------
(* str::parse for i32, u8 and f32 *)

\* value of a digit string, or -1 when it exceeds max (ParseIntError)
RECURSIVE parse_int(_, _, _)
parse_int(ds, acc, max) ==
    IF ds = <<>> THEN acc
    ELSE LET d == DigitValue(Head(ds))
         IN  IF acc > (max - d) \div 10 THEN -1
             ELSE parse_int(Tail(ds), acc * 10 + d, max)

CountOf(c, str) == Cardinality({j \in 1..Len(str) : str[j] = c})

RECURSIVE StripZeros(_)
StripZeros(ds) ==
    IF ds # <<>> /\ ds[Len(ds)] = "0" THEN StripZeros(SubSeq(ds, 1, Len(ds) - 1))
    ELSE ds

\* parse_number
parse_number(input) ==
    IF CountOf(".", input) > 0
    THEN \* input.parse::<f32>().unwrap(): digits with exactly one point
         IF CountOf(".", input) = 1 /\ Len(input) >= 2
         THEN LET dot  == CHOOSE j \in 1..Len(input) : input[j] = "."
                  frac == StripZeros(SubSeq(input, dot + 1, Len(input)))
                  m    == parse_int(SubSeq(input, 1, dot - 1) \o frac, 0, I32_MAX)
              IN  Val(Decimal(m, Len(frac)))
         ELSE Panic("ParseFloatError")
    ELSE LET n == parse_int(input, 0, I32_MAX)
         IN  IF n < 0 THEN Panic("ParseIntError") ELSE Val(Integer(n))

-----------------------------------------------------------------------------
(* Operator dispatch *)

parse_unary_prefix_op(operator_pair) ==
    LET operator == operator_pair[1]
        operand  == operator_pair[2]
    IN  IF operator = TagMinus THEN Val(Negate(operand))
        ELSE Panic("Invalid operator")

parse_unary_postfix_op(operator_pair) ==
    LET operand  == operator_pair[1]
        operator == operator_pair[2]
    IN  IF operator = TagBang THEN Val(Factorial(operand))
        ELSE Panic("Invalid operator")

\* mutant: the "%" arm is missing
parse_binary_op_no_modulus(operator_pair, expr1) ==
    LET operator == operator_pair[1]
        expr2    == operator_pair[2]
    IN  CASE operator = TagPlus    -> Val(Add(expr1, expr2))
          [] operator = TagMinus   -> Val(Subtract(expr1, expr2))
          [] operator = TagCdot    -> Val(Multiply(expr1, expr2))
          [] operator = TagSlash   -> Val(Divide(expr1, expr2))
          [] operator = TagCaret   -> Val(Power(expr1, expr2))
          [] OTHER                 -> Panic("Invalid operator")

parse_binary_op(operator_pair, expr1) ==
    LET operator == operator_pair[1]
        expr2    == operator_pair[2]
    IN  CASE operator = TagPlus    -> Val(Add(expr1, expr2))
          [] operator = TagMinus   -> Val(Subtract(expr1, expr2))
          [] operator = TagCdot    -> Val(Multiply(expr1, expr2))
          [] operator = TagSlash   -> Val(Divide(expr1, expr2))
          [] operator = TagCaret   -> Val(Power(expr1, expr2))
          [] operator = TagPercent -> Val(Modulus(expr1, expr2))
          [] OTHER                 -> Panic("Invalid operator")

\* mutant: the operators folded from the right
RECURSIVE fold_binary_operators_right(_, _)
fold_binary_operators_right(e, ops) ==
    IF ops = <<>> THEN Val(e)
    ELSE LET rest == fold_binary_operators_right(Head(ops)[2], Tail(ops))
         IN  IF rest.k = "panic" THEN rest
             ELSE parse_binary_op(<<Head(ops)[1], rest.val>>, e)

RECURSIVE fold_binary_operators(_, _)
fold_binary_operators(e, ops) ==
    IF ops = <<>> THEN Val(e)
    ELSE LET n == parse_binary_op(Head(ops), e)
         IN  IF n.k = "panic" THEN n ELSE fold_binary_operators(n.val, Tail(ops))

-----------------------------------------------------------------------------
(* The grammar *)

\* nom's combinators take parsers as arguments.  A parser is named here by a
\* string and called by `call`; the loops name their element parser the same
\* way.  memo is the table of results described at `call`.
RECURSIVE call(_, _, _, _), iterate(_, _, _, _, _), iterate_up(_, _, _, _, _)

\* The loops of nom (many0, separated_list0) carry the position and the list
\* built so far; k = "more" while the loop goes on.
More(p, acc) == [k |-> "more", pos |-> p, val |-> acc]

\* one turn of many0(f): f's error ends the list, a success that consumed
\* nothing is an error (nom's infinite loop check)
many0_step(which, s, memo, st) ==
    LET r == call(which, s, memo, st.pos)
    IN  IF r.k = "panic" THEN r
        ELSE IF r.k = "err" THEN Ok(st.pos, st.val)
        ELSE IF r.pos = st.pos THEN Err
        ELSE More(r.pos, Append(st.val, r.val))

\* one turn of separated_list0(char(sep), f) after the first element
separated_step(which, sep, s, memo, st) ==
    LET c == char(sep, s, st.pos)
    IN  IF c.k = "err" THEN Ok(st.pos, st.val)
        ELSE IF c.pos = st.pos THEN Err
        ELSE LET r == call(which, s, memo, c.pos)
             IN  IF r.k = "panic" THEN r
                 ELSE IF r.k = "err" THEN Ok(st.pos, st.val)
                 ELSE More(r.pos, Append(st.val, r.val))

loop_step(which, s, memo, st) ==
    CASE which = "row"  -> separated_step(which, ",", s, memo, st)
      [] which = "rows" -> separated_step(which, ";", s, memo, st)
      [] OTHER          -> many0_step(which, s, memo, st)

\* up to 2^n turns of the loop `which`, by doubling
iterate(which, s, memo, st, n) ==
    IF st.k # "more" THEN st
    ELSE IF n = 0 THEN loop_step(which, s, memo, st)
    ELSE iterate(which, s, memo, iterate(which, s, memo, st, n - 1), n - 1)

\* the loop `which` from state st: 2^n turns, then 2^(n+1), ... up to
\* 2^LoopLevels.  Every turn consumes at least one character, so a text
\* shorter than 2^LoopLevels characters ends the loop.
iterate_up(which, s, memo, st, n) ==
    IF st.k # "more" \/ n > LoopLevels THEN st
    ELSE iterate_up(which, s, memo, iterate(which, s, memo, st, n), n + 1)

\* many0(f), f the element parser named by `which`
many0(which, s, memo, i) == iterate_up(which, s, memo, More(i, <<>>), 0)

\* separated_list0(char(sep), f)
separated_list0(which, s, memo, i) ==
    LET r == call(which, s, memo, i)
    IN  IF r.k = "panic" THEN r
        ELSE IF r.k = "err" THEN Ok(i, <<>>)
        ELSE iterate_up(which, s, memo, More(r.pos, <<r.val>>), 0)

\* delimited(alt(opens), parse_add_sub, alt(closes))
delimited_add_sub(opens, closes, s, memo, i) ==
    Then(alt_tag(opens, s, i), LAMBDA o :
    Then(call("parse_add_sub", s, memo, o.pos), LAMBDA e :
    Then(alt_tag(closes, s, e.pos), LAMBDA c : Ok(c.pos, e.val))))

parse_parentheses(s, memo, i) ==
    TrailingSpace(
        OrElse(delimited_add_sub(<<TagLParen, TagLeftParen>>,
                                 <<TagRParen, TagRightParen>>, s, memo, space0(s, i)),
               delimited_add_sub(<<TagLBrace, TagLeftBrace>>,
                                 <<TagRBrace, TagRightBrace>>, s, memo, space0(s, i))), s)

parse_numeric(s, i) ==
    Map(TrailingSpace(take_while1(is_numeric_value, s, space0(s, i)), s),
        parse_number)

\* terminated(parse_add_sub, char(','))
terminated_comma(s, memo, i) ==
    Then(call("parse_add_sub", s, memo, i), LAMBDA e :
    Then(char(",", s, e.pos), LAMBDA c : Ok(c.pos, e.val)))

\* pair(many0(terminated(parse_add_sub, char(','))), parse_add_sub),
\* chained into one list
comma_list1(s, memo, i) ==
    Then(many0("terminated", s, memo, i), LAMBDA m :
    Then(call("parse_add_sub", s, memo, m.pos), LAMBDA l :
         Ok(l.pos, Append(m.val, l.val))))

\* the name alternatives of parse_function: pair(take_while1(alphabetic),
\* take_while(alphanumeric)), optionally preceded by a backslash
function_name(s, i) ==
    LET plain(j) ==
            Then(take_while1(Alphabetic, s, j), LAMBDA a :
            Then(take_while(Alphanumeric, s, a.pos), LAMBDA b :
                 Ok(b.pos, a.val \o b.val)))
    IN  OrElse(Then(tag(TagBackslash, s, i), LAMBDA bs : plain(bs.pos)),
               plain(i))

parse_function(s, memo, i) ==
    TrailingSpace(
        Then(function_name(s, space0(s, space0(s, i))), LAMBDA name :
        Then(alt_tag(<<TagLParen, TagLeftParen>>, s, name.pos), LAMBDA o :
        Then(comma_list1(s, memo, o.pos), LAMBDA a :
        Then(alt_tag(<<TagRParen, TagRightParen>>, s, a.pos), LAMBDA c :
             Ok(c.pos, Function(name.val, a.val)))))), s)

\* `len as u8 + 1`: the cast truncates; the addition overflows at 255, which
\* panics in a build with overflow checks (reported as -1) and wraps otherwise
vector_size(len) ==
    IF as_u8(len) = U8_MAX
    THEN IF overflow_checks THEN -1 ELSE 0
    ELSE as_u8(len) + 1

parse_vector(s, memo, i) ==
    LET build(v) ==
            IF vector_size(Len(v) - 1) < 0
            THEN Panic("attempt to add with overflow")
            ELSE Val(Vector(vector_size(Len(v) - 1), v))
    IN  Map(TrailingSpace(
                Then(char("<", s, space0(s, i)), LAMBDA o :
                Then(comma_list1(s, memo, o.pos), LAMBDA v :
                Then(char(">", s, v.pos), LAMBDA c : Ok(c.pos, v.val)))), s),
            build)

\* flatten_matrix.into_iter().flatten()
RECURSIVE flatten(_)
flatten(rows) ==
    IF Len(rows) = 0 THEN <<>>
    ELSE IF Len(rows) = 1 THEN rows[1]
    ELSE LET h == Len(rows) \div 2
         IN  flatten(SubSeq(rows, 1, h)) \o flatten(SubSeq(rows, h + 1, Len(rows)))

\* the closure of parse_matrix
build_matrix(flatten_matrix) ==
    IF Len(flatten_matrix) = 0 THEN Panic("index out of bounds")
    ELSE LET row_count == as_u8(Len(flatten_matrix))
             col_count == as_u8(Len(flatten_matrix[1]))
         IN  Val(Matrix(flatten(flatten_matrix), <<row_count, col_count>>))

parse_matrix(s, memo, i) ==
    Map(TrailingSpace(
            Then(char("[", s, space0(s, i)), LAMBDA o :
            Then(separated_list0("rows", s, memo, o.pos), LAMBDA m :
            Then(char("]", s, m.pos), LAMBDA c : Ok(c.pos, m.val)))), s),
        build_matrix)

\* the closure of parse_escape; value is the one character taken after '_'
build_escape(p) ==
    LET value == p[1][1]
        num   == parse_int(p[2], 0, U8_MAX)
    IN  IF value \notin {"A", "F", "V", "M", "*"}
        THEN Panic("internal error: entered unreachable code")
        ELSE IF num < 0 THEN Panic("ParseIntError")
        ELSE Val(Escape(CASE value = "A" -> "Atom"
                          [] value = "F" -> "Function"
                          [] value = "V" -> "Vector"
                          [] value = "M" -> "Matrix"
                          [] value = "*" -> "Everything", num))

parse_escape(s, i) ==
    Map(TrailingSpace(
            Then(char("_", s, space0(s, i)), LAMBDA u :
            Then(take(1, s, u.pos), LAMBDA x :
            Then(digit1(s, x.pos), LAMBDA d : Ok(d.pos, <<x.val, d.val>>)))), s),
        build_escape)

parse_variable(s, i) ==
    Then(take(1, s, space0(s, i)), LAMBDA x :
         Ok(space0(s, x.pos), Variable(x.val[1])))

parse_frac(s, memo, i) ==
    TrailingSpace(
        Then(tag(TagFrac, s, space0(s, i)), LAMBDA f :
        Then(delimited_add_sub(<<TagLBrace>>, <<TagRBrace>>, s, memo, f.pos), LAMBDA num :
        Then(delimited_add_sub(<<TagLBrace>>, <<TagRBrace>>, s, memo, num.pos), LAMBDA den :
             Ok(space0(s, den.pos), Divide(num.val, den.val))))), s)

parse_recursive(s, memo, i) ==
    OrElse(call("parse_parentheses", s, memo, i),
    OrElse(call("parse_frac", s, memo, i),
    OrElse(call("parse_vector", s, memo, i),
    OrElse(call("parse_matrix", s, memo, i),
    OrElse(call("parse_numeric", s, memo, i),
    OrElse(call("parse_function", s, memo, i),
    OrElse(call("parse_escape", s, memo, i),
           call("parse_variable", s, memo, i))))))))

\* Ok((input, fold_binary_operators(num, ops)))
Folded(num, ops) ==
    IF ops.k # "ok" THEN ops
    ELSE LET f == fold_binary_operators(num.val, ops.val)
         IN  IF f.k = "panic" THEN f ELSE Ok(ops.pos, f.val)

parse_exponents(s, memo, i) ==
    Then(call("parse_recursive", s, memo, i), LAMBDA num :
         Folded(num, many0("exponents", s, memo, num.pos)))

parse_unary_prefix(s, memo, i) ==
    Map(TrailingSpace(
            Then(tag(TagMinus, s, space0(s, i)), LAMBDA t :
            Then(call("parse_unary", s, memo, t.pos), LAMBDA e :
                 Ok(e.pos, <<t.val, e.val>>))), s),
        parse_unary_prefix_op)

parse_unary_postfix(s, memo, i) ==
    Map(TrailingSpace(
            Then(call("parse_exponents", s, memo, space0(s, i)), LAMBDA e :
            Then(tag(TagBang, s, e.pos), LAMBDA t :
                 Ok(t.pos, <<e.val, t.val>>))), s),
        parse_unary_postfix_op)

parse_unary(s, memo, i) ==
    OrElse(call("parse_unary_prefix", s, memo, i),
    OrElse(call("parse_unary_postfix", s, memo, i),
           call("parse_exponents", s, memo, i)))

parse_mult_div_mod(s, memo, i) ==
    Then(call("parse_unary", s, memo, i), LAMBDA num :
         Folded(num, many0("mult_div_mod", s, memo, num.pos)))

parse_add_sub(s, memo, i) ==
    Then(call("parse_mult_div_mod", s, memo, i), LAMBDA num :
         Folded(num, many0("add_sub", s, memo, num.pos)))

\* mutant: the right operand of "^" is a leaf, so a chain of "^" is folded
operator_operand_leaf(which, s, memo, i) ==
    Then(CASE which = "add_sub"      -> alt_tag(<<TagPlus, TagMinus>>, s, i)
           [] which = "mult_div_mod" -> alt_tag(<<TagCdot, TagSlash, TagPercent>>, s, i)
           [] which = "exponents"    -> tag(TagCaret, s, i), LAMBDA t :
    Then(CASE which = "add_sub"      -> call("parse_mult_div_mod", s, memo, t.pos)
           [] which = "mult_div_mod" -> call("parse_unary", s, memo, t.pos)
           [] which = "exponents"    -> call("parse_recursive", s, memo, t.pos), LAMBDA e :
         Ok(e.pos, <<t.val, e.val>>)))

\* mutant: the right operand of "^" is a unary expression
operator_operand_unary(which, s, memo, i) ==
    Then(CASE which = "add_sub"      -> alt_tag(<<TagPlus, TagMinus>>, s, i)
           [] which = "mult_div_mod" -> alt_tag(<<TagCdot, TagSlash, TagPercent>>, s, i)
           [] which = "exponents"    -> tag(TagCaret, s, i), LAMBDA t :
    Then(CASE which = "add_sub"      -> call("parse_mult_div_mod", s, memo, t.pos)
           [] which = "mult_div_mod" -> call("parse_unary", s, memo, t.pos)
           [] which = "exponents"    -> call("parse_unary", s, memo, t.pos), LAMBDA e :
         Ok(e.pos, <<t.val, e.val>>)))

\* tuple((operator tag, operand parser)): the element of the many0 of
\* parse_add_sub, parse_mult_div_mod and parse_exponents
operator_operand(which, s, memo, i) ==
    Then(CASE which = "add_sub"      -> alt_tag(<<TagPlus, TagMinus>>, s, i)
           [] which = "mult_div_mod" -> alt_tag(<<TagCdot, TagSlash, TagPercent>>, s, i)
           [] which = "exponents"    -> tag(TagCaret, s, i), LAMBDA t :
    Then(CASE which = "add_sub"      -> call("parse_mult_div_mod", s, memo, t.pos)
           [] which = "mult_div_mod" -> call("parse_unary", s, memo, t.pos)
           [] which = "exponents"    -> call("parse_exponents", s, memo, t.pos), LAMBDA e :
         Ok(e.pos, <<t.val, e.val>>)))

\* the parser named `which`, run at position i; the last four names are the
\* element parsers of the loops
run(which, s, memo, i) ==
    CASE which = "parse_add_sub"       -> parse_add_sub(s, memo, i)
      [] which = "parse_mult_div_mod"  -> parse_mult_div_mod(s, memo, i)
      [] which = "parse_unary"         -> parse_unary(s, memo, i)
      [] which = "parse_unary_prefix"  -> parse_unary_prefix(s, memo, i)
      [] which = "parse_unary_postfix" -> parse_unary_postfix(s, memo, i)
      [] which = "parse_exponents"     -> parse_exponents(s, memo, i)
      [] which = "parse_recursive"     -> parse_recursive(s, memo, i)
      [] which = "parse_parentheses"   -> parse_parentheses(s, memo, i)
      [] which = "parse_frac"          -> parse_frac(s, memo, i)
      [] which = "parse_vector"        -> parse_vector(s, memo, i)
      [] which = "parse_matrix"        -> parse_matrix(s, memo, i)
      [] which = "parse_numeric"       -> parse_numeric(s, i)
      [] which = "parse_function"      -> parse_function(s, memo, i)
      [] which = "parse_escape"        -> parse_escape(s, i)
      [] which = "parse_variable"      -> parse_variable(s, i)
      [] which = "terminated"          -> terminated_comma(s, memo, i)
      [] which = "row"                 -> parse_add_sub(s, memo, i)
      [] which = "rows"                -> separated_list0("row", s, memo, i)
      [] OTHER                         -> operator_operand(which, s, memo, i)

\* A parser is a pure function of the text and the position, so a result
\* computed once can be looked up again.  memo maps <<parser, position>> to
\* the result of that parser at that position; `call` takes a result from memo
\* when it is there and runs the parser otherwise.
call(which, s, memo, i) ==
    IF <<which, i>> \in DOMAIN memo THEN memo[<<which, i>>]
    ELSE run(which, s, memo, i)

\* the parsers whose results are kept, each after the ones it starts with
Tabulated == <<"parse_recursive", "parse_exponents", "parse_unary",
               "parse_mult_div_mod", "parse_add_sub">>

\* memo with one more result: the positions are taken from the end of the
\* text backwards, so the results a parser needs from later positions are
\* in memo when it runs
tabulate_step(s, memo) ==
    LET done  == Cardinality(DOMAIN memo)
        i     == Len(s) + 1 - (done \div Len(Tabulated))
        which == Tabulated[(done % Len(Tabulated)) + 1]
    IN  memo @@ (<<which, i>> :> call(which, s, memo, i))

\* every parser of Tabulated has its result at every position 1..Len(s) + 1
complete(s, memo) == Cardinality(DOMAIN memo) >= Len(Tabulated) * (Len(s) + 1)

\* up to 2^n more results
RECURSIVE tabulate(_, _, _), tabulate_up(_, _, _)
tabulate(s, memo, n) ==
    IF complete(s, memo) THEN memo
    ELSE IF n = 0 THEN tabulate_step(s, memo)
    ELSE tabulate(s, tabulate(s, memo, n - 1), n - 1)

\* 2^n more results, then 2^(n+1), ... up to 2^LoopLevels; what is not in
\* memo at the end is computed by `call` when it is needed
tabulate_up(s, memo, n) ==
    IF complete(s, memo) \/ n > LoopLevels THEN memo
    ELSE tabulate_up(s, tabulate(s, memo, n), n + 1)

\* parse: parse_add_sub(input).map_err(|_| "failed to parse").unwrap().1
parse(input) ==
    LET r == call("parse_add_sub", input, tabulate_up(input, [p \in {} |-> Err], 0), 1)
    IN  IF r.k = "err" THEN Panic("failed to parse")
        ELSE IF r.k = "panic" THEN r
        ELSE Val(r.val)

-----------------------------------------------------------------------------
(* Rendering *)

RECURSIVE digits_of(_)
digits_of(n) ==
    IF n < 10 THEN <<DigitChar(n)>> ELSE Append(digits_of(n \div 10), DigitChar(n % 10))

\* the last n characters of the digits of m, left-padded with zeros
RECURSIVE fraction_digits(_, _)
fraction_digits(m, n) ==
    IF n = 0 THEN <<>> ELSE Append(fraction_digits(m \div 10, n - 1), DigitChar(m % 10))

RECURSIVE pow10(_)
pow10(n) == IF n = 0 THEN 1 ELSE 10 * pow10(n - 1)

\* Atom::to_string (Display of Atom, defined in expression_tree)
atom_to_string(a) ==
    CASE a.kind = "Integer"  ->
            IF a.v < 0 THEN <<"-">> \o digits_of(0 - a.v) ELSE digits_of(a.v)
      [] a.kind = "Variable" -> <<a.v>>
      [] a.kind = "Decimal"  ->
            digits_of(a.v[1] \div pow10(a.v[2]))
            \o (IF a.v[2] = 0 THEN <<>> ELSE <<".">> \o fraction_digits(a.v[1], a.v[2]))
      [] a.kind = "Escape"   ->
            <<"_", CASE a.v[1] = "Atom" -> "A" [] a.v[1] = "Function" -> "F"
                     [] a.v[1] = "Vector" -> "V" [] a.v[1] = "Matrix" -> "M"
                     [] a.v[1] = "Everything" -> "*">> \o digits_of(a.v[2])

\* format!("\\left({}\\right)", x)
left_right(x) == TagLeftParen \o x \o TagRightParen

\* the index arithmetic `(*cs * r + c) as usize` on u8 operands: -1 when it
\* overflows in a build with overflow checks, the wrapped value otherwise
matrix_index(cs, r, c) ==
    IF cs * r + c > U8_MAX
    THEN IF overflow_checks THEN -1 ELSE as_u8(as_u8(cs * r) + c)
    ELSE cs * r + c

\* the Matrix arm: every interior format! result is dropped, but its argument
\* vec[..] is evaluated, cell by cell in row order
latexify_matrix(vec, rs, cs) ==
    LET cells == {<<r, c>> \in (0..(rs - 1)) \X (0..(cs - 1)) :
                     \/ matrix_index(cs, r, c) < 0
                     \/ matrix_index(cs, r, c) >= Len(vec)}
    IN  IF cells = {} THEN Val(<<"]">>)
        ELSE LET first == CHOOSE p \in cells : \A q \in cells :
                              \/ p[1] < q[1]
                              \/ p[1] = q[1] /\ p[2] <= q[2]
             IN  IF matrix_index(cs, first[1], first[2]) < 0
                 THEN Panic("attempt to multiply with overflow")
                 ELSE Panic("index out of bounds")

RECURSIVE latexify(_), latexify_args(_, _)

\* the argument loop of the Function arm; out is the text built so far
latexify_args(args, out) ==
    IF args = <<>> THEN Val(out)
    ELSE LET a == latexify(Head(args))
         IN  IF a.k = "panic" THEN a ELSE latexify_args(Tail(args), out \o <<",">> \o a.val)

latexify(e) ==
    CASE e.tag = "Atom" -> Val(atom_to_string(e))
      [] e.tag = "Negate" ->
            LET x == latexify(e.e)
            IN  IF x.k = "panic" THEN x
                ELSE IF e.e.tag = "Atom" THEN Val(<<"-">> \o x.val)
                ELSE Val(<<"-">> \o left_right(x.val))
      [] e.tag = "Factorial" ->
            LET x == latexify(e.e)
            IN  IF x.k = "panic" THEN x
                ELSE IF e.e.tag = "Atom" THEN Val(x.val \o <<"!">>)
                ELSE Val(left_right(x.val) \o <<"!">>)
      [] e.tag = "Percent" ->
            LET x == latexify(e.e)
            IN  IF x.k = "panic" THEN x
                ELSE IF e.e.tag = "Atom" THEN Val(x.val \o <<"%">>)
                ELSE Val(left_right(x.val) \o <<"%">>)
      [] e.tag \in {"Add", "Subtract", "Modulus"} ->
            LET l == latexify(e.l)
                r == latexify(e.r)
                joiner == CASE e.tag = "Add" -> TagPlus
                            [] e.tag = "Subtract" -> TagMinus
                            [] e.tag = "Modulus" -> TagPercent
            IN  IF l.k = "panic" THEN l
                ELSE IF r.k = "panic" THEN r
                ELSE Val(l.val \o joiner \o r.val)
      [] e.tag = "Multiply" ->
            LET l == latexify(e.l)
                r == latexify(e.r)
                side(child, x) ==
                    IF child.tag \in {"Add", "Subtract", "Modulus"}
                    THEN left_right(x) ELSE x
            IN  IF l.k = "panic" THEN l
                ELSE IF r.k = "panic" THEN r
                ELSE Val(side(e.l, l.val) \o TagCdot \o side(e.r, r.val))
      [] e.tag = "Divide" ->
            LET l == latexify(e.l)
                r == latexify(e.r)
            IN  IF l.k = "panic" THEN l
                ELSE IF r.k = "panic" THEN r
                ELSE Val(TagFrac \o <<"{">> \o l.val \o <<"}", "{">> \o r.val \o <<"}">>)
      [] e.tag = "Power" ->
            LET l == latexify(e.l)
                r == latexify(e.r)
                base == IF e.l.tag \in {"Add", "Subtract", "Modulus", "Multiply", "Divide"}
                        THEN left_right(l.val) ELSE l.val
                exponent == IF e.r.tag = "Atom" THEN r.val
                            ELSE <<"{">> \o r.val \o <<"}">>
            IN  IF l.k = "panic" THEN l
                ELSE IF r.k = "panic" THEN r
                ELSE Val(base \o TagCaret \o exponent)
      [] e.tag = "Function" ->
            LET first == IF e.args = <<>> THEN Val(<<>>) ELSE latexify(Head(e.args))
                rest  == IF first.k = "panic" \/ e.args = <<>> THEN first
                         ELSE latexify_args(Tail(e.args),
                                            e.name \o TagLeftParen \o first.val)
            IN  IF rest.k = "panic" THEN rest
                ELSE IF e.args = <<>> THEN Val(e.name \o TagLeftParen \o TagRightParen)
                ELSE Val(rest.val \o TagRightParen)
      [] e.tag = "Vector" -> Val(<<">">>)
      [] e.tag = "Matrix" -> latexify_matrix(e.backing, e.shape[1], e.shape[2])

-----------------------------------------------------------------------------
(* Inputs *)

\* all sequences over S of length 1..n
RECURSIVE SeqsUpTo(_, _)
SeqsUpTo(S, n) ==
    IF n = 0 THEN {}
    ELSE LET shorter == SeqsUpTo(S, n - 1)
         IN  {<<x>> : x \in S} \cup shorter \cup {Append(q, x) : q \in shorter, x \in S}

BinaryOperators == {TagPlus, TagMinus, TagCdot, TagSlash, TagPercent, TagCaret}

\* operand texts that hold no operator of their own
AtomicOperands == {<<"2">>, <<" ", "x">>}

Operands == AtomicOperands \cup {<<"y", "!">>}

\* operand (operator operand)* with n atomic operands
RECURSIVE AtomicChains(_)
AtomicChains(n) ==
    IF n = 1 THEN AtomicOperands
    ELSE {c \o op \o o : c \in AtomicChains(n - 1), op \in BinaryOperators,
                          o \in AtomicOperands}

\* operand (operator operand)*, with exactly n operands, the last of which
\* may carry a postfix '!'
Chains(n) ==
    IF n = 1 THEN Operands
    ELSE {c \o op \o o : c \in AtomicChains(n - 1), op \in BinaryOperators, o \in Operands}

\* the chains, and the shorter ones under a prefix '-' or a postfix '!'
OperatorTexts ==
    LET short == UNION {Chains(n) : n \in 1..(MaxOperands - 1)}
    IN  short \cup Chains(MaxOperands)
        \cup {TagMinus \o c : c \in short} \cup {c \o TagBang : c \in short}

Elements == {<<"1">>, <<"x">>}

\* e1,e2,...,en
RECURSIVE CommaJoin(_)
CommaJoin(es) ==
    IF Len(es) = 1 THEN es[1] ELSE es[1] \o <<",">> \o CommaJoin(Tail(es))

RECURSIVE SemicolonJoin(_)
SemicolonJoin(rs) ==
    IF Len(rs) = 1 THEN rs[1] ELSE rs[1] \o <<";">> \o SemicolonJoin(Tail(rs))

RowTexts == {CommaJoin(es) : es \in SeqsUpTo(Elements, MaxCols)}

VectorTexts == {<<"<">> \o r \o <<">">> : r \in RowTexts}

MatrixTexts == {<<"[">> \o SemicolonJoin(rs) \o <<"]">> : rs \in SeqsUpTo(RowTexts, MaxRows)}

NumericTexts == SeqsUpTo({"1", "0", ".", "-"}, MaxLiteral)

EscapeTexts ==
    {<<"_", x>> \o ds : x \in {"A", "F", "V", "M", "*", "B"},
                        ds \in SeqsUpTo({"2", "5", "6"}, MaxIndex)}

\* the matrix literal [1;1;...;1] of n rows
ColumnMatrix(n) ==
    [j \in 1..(2 * n + 1) |->
        IF j = 1 THEN "[" ELSE IF j = 2 * n + 1 THEN "]"
        ELSE IF j % 2 = 0 THEN "1" ELSE ";"]

\* the shortest literal whose row count does not fit the u8 of Matrix.shape
WideMatrix == ColumnMatrix(U8_MAX + 1)

LiteralTexts ==
    VectorTexts \cup MatrixTexts \cup {WideMatrix} \cup NumericTexts \cup EscapeTexts

GivenAtoms == {Integer(5), Variable("x")}

\* the pairs <<a, b>> of positive sizes with a + b = n
Splits(n) == {<<a, n - a>> : a \in 1..(n - 1)}

\* the trees of exactly n nodes built from Add, Multiply, Divide, Power,
\* Function (one or two arguments) and the atoms
RECURSIVE TreesOfSize(_)
TreesOfSize(n) ==
    IF n = 1 THEN GivenAtoms
    ELSE LET pairs == UNION {TreesOfSize(p[1]) \X TreesOfSize(p[2]) : p \in Splits(n - 1)}
         IN  {Add(p[1], p[2]) : p \in pairs}
             \cup {Multiply(p[1], p[2]) : p \in pairs}
             \cup {Divide(p[1], p[2]) : p \in pairs}
             \cup {Power(p[1], p[2]) : p \in pairs}
             \cup {Function(<<"f">>, <<p[1], p[2]>>) : p \in pairs}
             \cup {Function(<<"f">>, <<a>>) : a \in TreesOfSize(n - 1)}

GivenTrees == UNION {TreesOfSize(n) : n \in 1..MaxNodes}

-----------------------------------------------------------------------------
(* The program as a state machine: a caller holding a text calls parse, a   *)
(* caller holding a tree calls latexify, and each result can be fed back.   *)

InitText(texts) ==
    /\ text \in texts
    /\ expr = NoExpr
    /\ orig = NoExpr
    /\ pc = "input"
    /\ fault = "none"
    /\ steps = 0
    /\ overflow_checks \in BOOLEAN

InitTree(trees) ==
    /\ text = <<>>
    /\ expr \in trees
    /\ orig = NoExpr
    /\ pc = "given"
    /\ fault = "none"
    /\ steps = 0
    /\ overflow_checks \in BOOLEAN

Parse ==
    /\ pc \in {"input", "rendered"}
    /\ steps < MaxSteps
    /\ LET r == parse(text)
       IN  IF r.k = "panic"
           THEN /\ pc' = "parse_panicked"
                /\ fault' = r.why
                /\ expr' = NoExpr
           ELSE /\ pc' = "parsed"
                /\ fault' = "none"
                /\ expr' = r.val
    /\ steps' = steps + 1
    /\ UNCHANGED <<text, orig, overflow_checks>>

Latexify ==
    /\ pc \in {"given", "parsed"}
    /\ steps < MaxSteps
    /\ LET r == latexify(expr)
       IN  IF r.k = "panic"
           THEN /\ pc' = "latexify_panicked"
                /\ fault' = r.why
                /\ text' = <<>>
           ELSE /\ pc' = "rendered"
                /\ fault' = "none"
                /\ text' = r.val
    /\ orig' = expr
    /\ steps' = steps + 1
    /\ UNCHANGED <<expr, overflow_checks>>

Next == Parse \/ Latexify

\* operator chains as input
Init == InitText(OperatorTexts)
Spec == Init /\ [][Next]_vars

\* vector, matrix, numeric and escape literals as input
InitLiterals == InitText(LiteralTexts)
SpecLiterals == InitLiterals /\ [][Next]_vars

\* expression trees as input
InitTrees == InitTree(GivenTrees)
SpecTrees == InitTrees /\ [][Next]_vars

-----------------------------------------------------------------------------
(* Properties *)

\* parse has just returned or panicked on `text`
Parsed == pc \in {"parsed", "parse_panicked"}

\* the tree each operand text denotes
OperandTree(o) ==
    CASE o = <<"2">>      -> Integer(2)
      [] o = <<" ", "x">> -> Variable("x")
      [] o = <<"y", "!">> -> Factorial(Variable("y"))

\* op(l, r) for the operator written op
BinaryNode(op, l, r) ==
    CASE op = TagPlus    -> Add(l, r)
      [] op = TagMinus   -> Subtract(l, r)
      [] op = TagCdot    -> Multiply(l, r)
      [] op = TagSlash   -> Divide(l, r)
      [] op = TagPercent -> Modulus(l, r)
      [] op = TagCaret   -> Power(l, r)

AdditiveOperators == {TagPlus, TagMinus}
MultiplicativeOperators == {TagCdot, TagSlash, TagPercent}

\* e1 op1 e2 op2 e3 with op1, op2 of one layer, and its left fold
SameLayerCases ==
    {[text |-> a \o op1 \o b \o op2 \o c,
      tree |-> BinaryNode(op2, BinaryNode(op1, OperandTree(a), OperandTree(b)),
                          OperandTree(c))] :
        a \in AtomicOperands, b \in AtomicOperands, c \in Operands,
        op1 \in AdditiveOperators, op2 \in AdditiveOperators}
    \cup
    {[text |-> a \o op1 \o b \o op2 \o c,
      tree |-> BinaryNode(op2, BinaryNode(op1, OperandTree(a), OperandTree(b)),
                          OperandTree(c))] :
        a \in AtomicOperands, b \in AtomicOperands, c \in Operands,
        op1 \in MultiplicativeOperators, op2 \in MultiplicativeOperators}

\* a + b \cdot c (any additive, then any multiplicative operator)
PrecedenceCases ==
    {[text |-> a \o op1 \o b \o op2 \o c,
      tree |-> BinaryNode(op1, OperandTree(a),
                          BinaryNode(op2, OperandTree(b), OperandTree(c)))] :
        a \in AtomicOperands, b \in AtomicOperands, c \in Operands,
        op1 \in AdditiveOperators, op2 \in MultiplicativeOperators}

FoldCases == SameLayerCases \cup PrecedenceCases
FoldTexts == {c.text : c \in FoldCases}

\* C2: the additive and the multiplicative layer fold to the left, and the
\* multiplicative layer binds tighter: parse of `e1 op1 e2 op2 e3` with both
\* operators of one layer is op2(op1(e1, e2), e3), and parse of `a + b \cdot c`
\* is Add(a, Multiply(b, c)).
C2_LeftFold ==
    (Parsed /\ text \in FoldTexts) =>
        /\ pc = "parsed"
        /\ \A c \in FoldCases : c.text = text => expr = c.tree

C2_Witness ==
    /\ pc = "parsed"
    /\ text = <<"2", "-", " ", "x", "-", "y", "!">>
    /\ expr = Subtract(Subtract(Integer(2), Variable("x")), Factorial(Variable("y")))

\* a1^a2^...^an
RECURSIVE PowerChain(_)
PowerChain(os) ==
    IF Len(os) = 1 THEN os[1] ELSE os[1] \o TagCaret \o PowerChain(Tail(os))

\* Power(a1, Power(a2, ... Power(a(n-1), an)))
RECURSIVE RightNested(_)
RightNested(os) ==
    IF Len(os) = 1 THEN OperandTree(os[1])
    ELSE Power(OperandTree(os[1]), RightNested(Tail(os)))

PowerCases ==
    {[text |-> PowerChain(os), tree |-> RightNested(os)] :
        os \in {q \in SeqsUpTo(AtomicOperands, MaxOperands) : Len(q) >= 2}}

RECURSIVE HasLeftNestedPower(_)
HasLeftNestedPower(e) ==
    CASE e.tag \in {"Atom", "None"} -> FALSE
      [] e.tag \in {"Negate", "Factorial", "Percent"} -> HasLeftNestedPower(e.e)
      [] e.tag \in {"Function"} -> \E j \in 1..Len(e.args) : HasLeftNestedPower(e.args[j])
      [] e.tag \in {"Vector", "Matrix"} ->
            \E j \in 1..Len(e.backing) : HasLeftNestedPower(e.backing[j])
      [] OTHER -> \/ e.tag = "Power" /\ e.l.tag = "Power"
                  \/ HasLeftNestedPower(e.l)
                  \/ HasLeftNestedPower(e.r)

Unparenthesized == \A j \in 1..Len(text) : text[j] \notin {"(", "{"}

\* C3: exponentiation associates to the right: parse of a chain a1^a2^...^an
\* of atomic operands is Power(a1, Power(a2, ...)), and no unparenthesized
\* text parses to a Power whose base is a Power.
C3_PowerRightAssociative ==
    Parsed =>
        /\ \A c \in PowerCases : c.text = text => (pc = "parsed" /\ expr = c.tree)
        /\ (pc = "parsed" /\ Unparenthesized) => ~HasLeftNestedPower(expr)

C3_Witness ==
    /\ pc = "parsed"
    /\ text = <<"2", "^", " ", "x", "^", "2">>
    /\ expr = Power(Integer(2), Power(Variable("x"), Integer(2)))

\* a^b! for atomic operands a, b
FactorialCases ==
    {[text |-> a \o TagCaret \o b \o TagBang, a |-> OperandTree(a), b |-> OperandTree(b)] :
        a \in AtomicOperands, b \in AtomicOperands}

\* C4 as stated: parse of `a^b!` attaches the `!` to b, giving
\* Power(a, Factorial(b)).
C4_FactorialOnExponent ==
    Parsed => \A c \in FactorialCases :
        c.text = text => (pc = "parsed" /\ expr = Power(c.a, Factorial(c.b)))

\* C4 amended: parse of `a^b!` attaches the `!` to the whole power, giving
\* Factorial(Power(a, b)).
C4_FactorialOnPower ==
    Parsed => \A c \in FactorialCases :
        c.text = text => (pc = "parsed" /\ expr = Factorial(Power(c.a, c.b)))

C4_Witness ==
    /\ pc = "parsed"
    /\ text = <<"2", "^", " ", "x", "!">>
    /\ expr = Factorial(Power(Integer(2), Variable("x")))

\* C9: the "Invalid operator" arms of parse_binary_op, parse_unary_prefix_op
\* and parse_unary_postfix_op are never reached, whatever the input text.
C9_NoInvalidOperator == fault # "Invalid operator"

C9_Witness ==
    /\ pc = "parsed"
    /\ text = <<"-", "2", "^", "y", "!">>
    /\ expr = Negate(Factorial(Power(Integer(2), Variable("y"))))

\* the run of digits and points that parse_numeric takes at the start of text
NumericRun == SubSeq(text, 1, run_end(is_numeric_value, text, 1) - 1)

\* C7: the numeric-literal rule takes a run of digits with at most one decimal
\* point (a second point is never taken into the same literal), and the
\* literal is a Decimal exactly when its text holds a point, an Integer
\* otherwise.
C7_NumericLiteral ==
    (Parsed /\ text \in NumericTexts /\ text[1] \in is_numeric_value) =>
        /\ CountOf(".", NumericRun) <= 1
        /\ (pc = "parsed" /\ NumericRun = text) =>
              /\ expr.tag = "Atom"
              /\ expr.kind = (IF CountOf(".", text) > 0 THEN "Decimal" ELSE "Integer")

EscapeKind(x) ==
    CASE x = "A" -> "Atom" [] x = "F" -> "Function" [] x = "V" -> "Vector"
      [] x = "M" -> "Matrix" [] x = "*" -> "Everything" [] OTHER -> "none"

\* C8: whenever the escape rule matches `_X<digits>`, X is one of A, F, V, M, *
\* and the result is Atom(Escape(kind, index)); the unreachable!() arm of the
\* kind dispatch is never executed.
C8_EscapeKinds ==
    (Parsed /\ text \in EscapeTexts) =>
        /\ text[2] \in {"A", "F", "V", "M", "*"}
        /\ fault # "internal error: entered unreachable code"
        /\ pc = "parsed" =>
              expr = Escape(EscapeKind(text[2]),
                            parse_int(SubSeq(text, 3, Len(text)), 0, U8_MAX))

\* the rows of a '['-literal are split by ';', the elements of a row by ','
RowCount == CountOf(";", text) + 1

FirstRowLength ==
    LET ends == {j \in 1..Len(text) : text[j] \in {";", "]"}}
        stop == CHOOSE j \in ends : \A m \in ends : j <= m
    IN  CountOf(",", SubSeq(text, 1, stop)) + 1

IsElementChar(c) == c \notin {"[", "]", ";", ","}

\* the one-character elements of the literal, in order, as trees
ElementTrees ==
    LET cs == SelectSeq(text, IsElementChar)
    IN  [j \in 1..Len(cs) |->
            IF cs[j] \in Digits THEN Integer(DigitValue(cs[j])) ELSE Variable(cs[j])]

\* C6: a matrix literal accepted by parse gives shape = (number of rows, length
\* of the first row) and backing = the elements of all rows in row order, and
\* a literal with uneven rows is accepted without error.
C6_MatrixShape ==
    (Parsed /\ text \in MatrixTexts \cup {WideMatrix}) =>
        /\ pc = "parsed"
        /\ expr.tag = "Matrix"
        /\ expr.shape = <<RowCount, FirstRowLength>>
        /\ expr.backing = ElementTrees

\* C10: latexify returns a string on every tree that parse returns; every
\* index cs*r+c it computes for a parsed Matrix is within backing.
C10_LatexifyTotal == pc # "latexify_panicked"

\* the rendered text of each element of a sequence of trees
Rendered(es) == [j \in 1..Len(es) |-> latexify(es[j]).val]

\* C5: latexify of a Vector is `<e1,...,eN>` and latexify of a Matrix is
\* `[r1;r2;...]`, each row the comma-separated text of its elements.
C5_VectorMatrixText ==
    /\ (pc = "rendered" /\ orig.tag = "Vector") =>
          text = <<"<">> \o CommaJoin(Rendered(orig.backing)) \o <<">">>
    /\ (pc = "rendered" /\ orig.tag = "Matrix"
            /\ orig.shape[1] * orig.shape[2] = Len(orig.backing)
            /\ Len(orig.backing) > 0) =>
          text = <<"[">>
                 \o SemicolonJoin([r \in 1..orig.shape[1] |->
                        CommaJoin(Rendered(SubSeq(orig.backing,
                                                  orig.shape[2] * (r - 1) + 1,
                                                  orig.shape[2] * r)))])
                 \o <<"]">>

\* built only from Add, Multiply, Divide, Power, Function (at least one
\* argument) and atoms that are non-negative integers or one-letter variables
RECURSIVE RoundTripTree(_)
RoundTripTree(e) ==
    CASE e.tag = "Atom" ->
            \/ e.kind = "Integer" /\ e.v >= 0
            \/ e.kind = "Variable" /\ e.v \in Alphabetic
      [] e.tag \in {"Add", "Multiply", "Divide", "Power"} ->
            RoundTripTree(e.l) /\ RoundTripTree(e.r)
      [] e.tag = "Function" ->
            Len(e.args) >= 1 /\ \A j \in 1..Len(e.args) : RoundTripTree(e.args[j])
      [] OTHER -> FALSE

\* C1: for every tree t built only from Add, Multiply, Divide, Power, Function
\* and Atom nodes, parse(latexify(t)) is a tree equal to t.
C1_RoundTrip ==
    (Parsed /\ RoundTripTree(orig)) => (pc = "parsed" /\ expr = orig)

====
